---- MODULE Spec2Model ----
(***************************************************************************)
(* Model of PriceMovementScanner (src/docs/databento.py): the reference    *)
(* price table built at construction and the scan() callback that the live *)
(* feed invokes once per market-data event.                                 *)
(*                                                                         *)
(* Numbers.  Prices are Python floats in the program.  The model keeps     *)
(* them exact: a real number is a record [num, den] read as num / den.     *)
(* Fixed-point feed prices are integers in units of PX_SCALE dollars, and  *)
(* closing prices are whole dollars.  PX_SCALE is 1e-9 in the program; the *)
(* model uses 1/PX_SCALE_DEN with a reduced denominator so that every      *)
(* product stays inside TLC's 32-bit integers.  PX_NULL is the largest     *)
(* value of the feed's signed integer type (2^63 - 1 in the program, the   *)
(* largest TLC integer here); it is only ever compared, never added.       *)
(*                                                                         *)
(* Exceptions.  A Python exception leaves scan() at the raising line; the  *)
(* assignments before it stand, those after it do not happen.  The feed    *)
(* client reports a callback's exception and delivers the next event, so   *)
(* the model records the exception in `result` and goes on.                *)
(*                                                                         *)
(* Construction.  Init is the call of __init__: it draws the pct_threshold  *)
(* argument from ThresholdArgs and the answer of the historical client     *)
(* from Sources.  Construct runs __init__ on them.  The answer is a local   *)
(* of get_last_day_lookup and is gone when it returns; the argument is     *)
(* kept to compare the threshold with.                                     *)
(***************************************************************************)
EXTENDS Integers, Sequences, FiniteSets

\* ---------------------------------------------------------------- bounds
MaxRows == 2          \* rows in the historical response

\* ------------------------------------------------------ program constants
PX_SCALE_DEN == 10            \* PX_SCALE = 1 / PX_SCALE_DEN
PX_NULL == 2147483647         \* largest signed integer of the price type
PCT_DEN == 100                \* thresholds are hundredths
PCT_MOVE_THRESHOLD == [num |-> 3, den |-> PCT_DEN]     \* 0.03

\* ------------------------------------------------------------ input sets
Symbols == {"A", "B"}
InstrumentIDs == {1, 2}
Timestamps == {1, 2}
\* a close of 10 dollars is 100 feed units: a mid of 103 is a move of exactly 0.03
FeedPrices == {96, 103}
Rows == {[symbol |-> "A", close |-> 10], [symbol |-> "B", close |-> 10],
         [symbol |-> "B", close |-> 0], [symbol |-> "B", close |-> -10]}

RECURSIVE SeqsUpTo(_, _)
SeqsUpTo(S, n) ==
    IF n = 0 THEN {<<>>}
    ELSE LET shorter == SeqsUpTo(S, n - 1)
         IN  shorter \cup {Append(q, x) : q \in {r \in shorter : Len(r) = n - 1}, x \in S}

\* What the historical client answers: an error, or the rows of the frame.
Sources == {[ok |-> FALSE, rows |-> <<>>]}
             \cup {[ok |-> TRUE, rows |-> r] : r \in SeqsUpTo(Rows, MaxRows)}

\* The pct_threshold argument: None (given = FALSE) or a fraction num/PCT_DEN.
ThresholdArgs == {[given |-> FALSE, num |-> 0], [given |-> TRUE, num |-> 0],
                  [given |-> TRUE, num |-> 2]}

\* no response at hand: get_last_day_lookup has returned and dropped its locals
NoSource == [ok |-> TRUE, rows |-> <<>>]

\* self.pct_threshold before __init__ has assigned it
NoThreshold == [num |-> 0, den |-> 0]

NoEvent == [kind |-> "none", id |-> 0, symbol |-> "", ts |-> 0, bid |-> 0, ask |-> 0]

SymbolMappingMsgs ==
    {[kind |-> "SymbolMappingMsg", id |-> i, symbol |-> s, ts |-> 0, bid |-> 0, ask |-> 0] :
        i \in InstrumentIDs, s \in Symbols}

MBP1Msgs ==
    {[kind |-> "MBP1Msg", id |-> i, symbol |-> "", ts |-> t, bid |-> b, ask |-> a] :
        i \in InstrumentIDs, t \in Timestamps,
        b \in FeedPrices \cup {PX_NULL}, a \in FeedPrices \cup {PX_NULL}}

\* threads that may deliver quotes concurrently; thread t stamps its quotes t
Threads == {1, 2}
ThreadQuotes(t) == {e \in MBP1Msgs : e.ts = t /\ e.bid # PX_NULL /\ e.ask # PX_NULL}

\* a thread that is not inside scan()
Idle == [at |-> "idle", symbol |-> "", alert |-> <<>>]

OtherMsgs == {[kind |-> "Other", id |-> 0, symbol |-> "", ts |-> 0, bid |-> 0, ask |-> 0]}

VARIABLES
    pc,                 \* "init", "built": in __init__; "scanning": constructed; "failed"
    pct_arg,            \* the pct_threshold argument __init__ was called with
    source,             \* the historical client's answer, while __init__ runs
    pct_threshold,      \* self.pct_threshold
    symbol_directory,   \* self.symbol_directory : instrument id -> symbol
    last_day_lookup,    \* self.last_day_lookup : symbol -> close
    is_signal_lit,      \* self.is_signal_lit : symbol -> BOOLEAN
    out,                \* the alerts printed so far, in order
    event,              \* the event of the last scan() call
    result,             \* how that call ended
    same_as_prev,       \* that call got the same event as the call before it
    calls               \* scan() calls in flight on other threads, by thread

vars == <<pc, pct_arg, source, pct_threshold, symbol_directory, last_day_lookup,
          is_signal_lit, out, event, result, same_as_prev, calls>>

\* ------------------------------------------------------------ arithmetic
Abs(x) == IF x < 0 THEN -x ELSE x

\* mutant of Gt: the comparison written >= instead of >
Gt_OrEqual(a, b) ==
    IF a.den > 0 THEN a.num * b.den >= b.num * a.den
                 ELSE a.num * b.den <= b.num * a.den

\* a > b for a = [num, den] with den # 0 and b = [num, den] with den > 0
Gt(a, b) ==
    IF a.den > 0 THEN a.num * b.den > b.num * a.den
                 ELSE a.num * b.den < b.num * a.den

\* ---------------------------------------------------------- construction
\* mutant of DictZip: a symbol keeps the close of its first row
RECURSIVE DictZip_FirstWins(_)
DictZip_FirstWins(rows) ==
    IF rows = <<>> THEN <<>>
    ELSE LET n == Len(rows)
             d == DictZip_FirstWins(SubSeq(rows, 1, n - 1))
             r == rows[n]
         IN  [s \in DOMAIN d \cup {r.symbol} |-> IF s \in DOMAIN d THEN d[s] ELSE r.close]

\* dict(zip(df["symbol"], df["close"])): a later row overwrites an earlier one
RECURSIVE DictZip(_)
DictZip(rows) ==
    IF rows = <<>> THEN <<>>
    ELSE LET n == Len(rows)
             d == DictZip(SubSeq(rows, 1, n - 1))
             r == rows[n]
         IN  [s \in DOMAIN d \cup {r.symbol} |-> IF s = r.symbol THEN r.close ELSE d[s]]

get_last_day_lookup(src) == DictZip(src.rows)

\* pct_threshold or self.PCT_MOVE_THRESHOLD: None and 0.0 are both falsy
InitThreshold(arg) ==
    IF arg.given /\ arg.num # 0 THEN [num |-> arg.num, den |-> PCT_DEN]
                                ELSE PCT_MOVE_THRESHOLD

\* mutant of InitSignals: a signal for every symbol, in the table or not
InitSignals_AllSymbols(lookup) == [s \in Symbols |-> FALSE]

\* {symbol: False for symbol in self.last_day_lookup}
InitSignals(lookup) == [s \in DOMAIN lookup |-> FALSE]

Init ==
    \E arg \in ThresholdArgs, src \in Sources :
        /\ pc = "init"
        /\ pct_arg = arg
        /\ source = src
        /\ pct_threshold = NoThreshold
        /\ symbol_directory = <<>>
        /\ last_day_lookup = <<>>
        /\ is_signal_lit = <<>>
        /\ out = <<>>
        /\ event = NoEvent
        /\ result = "none"
        /\ same_as_prev = FALSE
        /\ calls = [t \in Threads |-> Idle]

\* __init__, lines 40-44: the threshold, the empty directory and the call of
\* get_last_day_lookup, up to its return statement.  An error of the
\* historical client leaves __init__ there: no scanner is returned.
Construct ==
    /\ pc = "init"
    /\ pct_threshold' = InitThreshold(pct_arg)
    /\ symbol_directory' = <<>>
    /\ IF source.ok
         THEN /\ pc' = "built"
              /\ last_day_lookup' = get_last_day_lookup(source)
         ELSE /\ pc' = "failed"
              /\ UNCHANGED last_day_lookup
    /\ UNCHANGED <<pct_arg, source, is_signal_lit, out, event, result, same_as_prev, calls>>

\* __init__, line 45, and its return: the signals; the response is dropped
Constructed ==
    /\ pc = "built"
    /\ pc' = "scanning"
    /\ is_signal_lit' = InitSignals(last_day_lookup)
    /\ source' = NoSource
    /\ UNCHANGED <<pct_arg, pct_threshold, symbol_directory, last_day_lookup,
                   out, event, result, same_as_prev, calls>>

\* ------------------------------------------------------------------ scan
\* mutant of MapInsert: the directory is replaced by the one new binding
MapInsert_Replace(dir, id, symbol) == [i \in {id} |-> symbol]

\* mutant of MapInsert: a mapping that repeats the current binding ends it
MapInsert_Toggle(dir, id, symbol) ==
    IF id \in DOMAIN dir /\ dir[id] = symbol
      THEN [i \in DOMAIN dir \ {id} |-> dir[i]]
      ELSE [i \in DOMAIN dir \cup {id} |-> IF i = id THEN symbol ELSE dir[i]]

\* self.symbol_directory[event.hd.instrument_id] = event.stype_out_symbol
MapInsert(dir, id, symbol) ==
    [i \in DOMAIN dir \cup {id} |-> IF i = id THEN symbol ELSE dir[i]]

\* mutant of Mid: the factor 0.5 left out
Mid_NoHalf(bid, ask) == [num |-> bid + ask, den |-> PX_SCALE_DEN]

\* (bid_px + ask_px) * PX_SCALE * 0.5
Mid(bid, ask) == [num |-> bid + ask, den |-> 2 * PX_SCALE_DEN]

\* abs(mid - last) / last, for last # 0
AbsR(mid, last) == [num |-> Abs(mid.num - last * mid.den), den |-> last * mid.den]

\* bid == self.PX_NULL or ask == self.PX_NULL
EmptySide(bid, ask) == bid = PX_NULL \/ ask = PX_NULL

\* mutant of ShouldAlert: the signal is not consulted
ShouldAlert_NoLatch(abs_r, threshold, lit) == Gt(abs_r, threshold)

\* abs_r > self.pct_threshold and not self.is_signal_lit[symbol]
ShouldAlert(abs_r, threshold, lit) == Gt(abs_r, threshold) /\ ~lit

\* the values the print statement formats
Alert(symbol, ts, abs_r, mid, last) ==
    [symbol |-> symbol, ts |-> ts, pct |-> abs_r, mid |-> mid, last |-> last]

\* mutant of Light: every signal is lit
Light_All(lit, symbol) == [s \in DOMAIN lit |-> TRUE]

\* mutant of Light: the signal is never lit
Light_Never(lit, symbol) == lit

\* mutant of Light: the map is rebuilt with only this symbol lit
Light_Only(lit, symbol) == [s \in DOMAIN lit |-> s = symbol]

\* self.is_signal_lit[symbol] = True
Light(lit, symbol) == [lit EXCEPT ![symbol] = TRUE]

\* mutant of Handled: a symbol that alerted is taken out of the reference table
Handled_Forget(e, res) ==
    /\ event' = e
    /\ result' = res
    /\ same_as_prev' = (e = event)
    /\ last_day_lookup' =
          IF res = "alert"
            THEN [s \in DOMAIN last_day_lookup \ {symbol_directory[e.id]} |-> last_day_lookup[s]]
            ELSE last_day_lookup
    /\ UNCHANGED <<pc, pct_arg, source, pct_threshold, calls>>

\* what every scan() call leaves alone, and the record of the call
Handled(e, res) ==
    /\ event' = e
    /\ result' = res
    /\ same_as_prev' = (e = event)
    /\ UNCHANGED <<pc, pct_arg, source, pct_threshold, last_day_lookup, calls>>

\* mutant of ScanSymbolMapping: a mapping re-arms the signal of its symbol
ScanSymbolMapping_Rearm ==
    \E e \in SymbolMappingMsgs :
        /\ pc = "scanning"
        /\ symbol_directory' = MapInsert(symbol_directory, e.id, e.symbol)
        /\ is_signal_lit' = [s \in DOMAIN is_signal_lit |->
                                IF s = e.symbol THEN FALSE ELSE is_signal_lit[s]]
        /\ Handled(e, "returned")
        /\ UNCHANGED out

ScanSymbolMapping ==
    \E e \in SymbolMappingMsgs :
        /\ pc = "scanning"
        /\ symbol_directory' = MapInsert(symbol_directory, e.id, e.symbol)
        /\ Handled(e, "returned")
        /\ UNCHANGED <<is_signal_lit, out>>

ScanOther ==
    \E e \in OtherMsgs :
        /\ pc = "scanning"
        /\ Handled(e, "returned")
        /\ UNCHANGED <<symbol_directory, is_signal_lit, out>>

\* mutant of ScanQuote: line 106 outside the if of line 100
ScanQuote_LightAlways(e, dir, lookup, threshold, lit, printed) ==
    LET same(res) == [result |-> res, lit |-> lit, out |-> printed]
    IN  IF e.id \notin DOMAIN dir THEN same("KeyError")
        ELSE LET symbol == dir[e.id]
             IN  IF EmptySide(e.bid, e.ask) THEN same("returned")
                 ELSE IF symbol \notin DOMAIN lookup THEN same("KeyError")
                 ELSE LET mid == Mid(e.bid, e.ask)
                          last == lookup[symbol]
                      IN  IF last = 0 THEN same("ZeroDivisionError")
                          ELSE LET abs_r == AbsR(mid, last)
                               IN  IF ShouldAlert(abs_r, threshold, lit[symbol])
                                     THEN [result |-> "alert",
                                           lit |-> Light(lit, symbol),
                                           out |-> Append(printed,
                                                     Alert(symbol, e.ts, abs_r, mid, last))]
                                     ELSE [result |-> "returned",
                                           lit |-> Light(lit, symbol),
                                           out |-> printed]

\* The outcome of scan() on an MBP1Msg, as [result, lit, out].
ScanQuote(e, dir, lookup, threshold, lit, printed) ==
    LET same(res) == [result |-> res, lit |-> lit, out |-> printed]
    IN  IF e.id \notin DOMAIN dir THEN same("KeyError")
        ELSE LET symbol == dir[e.id]
             IN  IF EmptySide(e.bid, e.ask) THEN same("returned")
                 ELSE IF symbol \notin DOMAIN lookup THEN same("KeyError")
                 ELSE LET mid == Mid(e.bid, e.ask)
                          last == lookup[symbol]
                      IN  IF last = 0 THEN same("ZeroDivisionError")
                          ELSE LET abs_r == AbsR(mid, last)
                               IN  IF ShouldAlert(abs_r, threshold, lit[symbol])
                                     THEN [result |-> "alert",
                                           lit |-> Light(lit, symbol),
                                           out |-> Append(printed,
                                                     Alert(symbol, e.ts, abs_r, mid, last))]
                                     ELSE same("returned")

ScanMBP1 ==
    \E e \in MBP1Msgs :
        LET r == ScanQuote(e, symbol_directory, last_day_lookup, pct_threshold,
                           is_signal_lit, out)
        IN  /\ pc = "scanning"
            /\ is_signal_lit' = r.lit
            /\ out' = r.out
            /\ Handled(e, r.result)
            /\ UNCHANGED symbol_directory

Next == Construct \/ Constructed \/ ScanSymbolMapping \/ ScanOther \/ ScanMBP1

Spec == Init /\ [][Next]_vars

\* ------------------------------------------- scan() delivered concurrently
\* main() registers one callback and the feed client calls it for one event
\* at a time: that is Spec.  SpecConc is the same scanner with quotes
\* delivered by two threads at once.  scan() takes no lock, so a call can be
\* preempted between its statements; of these the read of is_signal_lit in
\* the condition of line 100, the print of lines 102-105 and the write of
\* line 106 touch the shared state, and each is one step here.

\* lines 88-100: resolve, compute, and test the condition; a call that raises
\* or finds the condition false is over and has changed nothing
CallRead(t) ==
    \E e \in ThreadQuotes(t) :
        LET r == ScanQuote(e, symbol_directory, last_day_lookup, pct_threshold,
                           is_signal_lit, out)
        IN  /\ pc = "scanning"
            /\ calls[t].at = "idle"
            /\ r.result = "alert"
            /\ calls' = [calls EXCEPT ![t] = [at |-> "print",
                                              symbol |-> symbol_directory[e.id],
                                              alert |-> r.out[Len(r.out)]]]
            /\ UNCHANGED <<pc, pct_arg, source, pct_threshold, symbol_directory,
                           last_day_lookup, is_signal_lit, out, event, result,
                           same_as_prev>>

\* lines 101-105: the print
CallPrint(t) ==
    /\ calls[t].at = "print"
    /\ out' = Append(out, calls[t].alert)
    /\ calls' = [calls EXCEPT ![t].at = "light"]
    /\ UNCHANGED <<pc, pct_arg, source, pct_threshold, symbol_directory,
                   last_day_lookup, is_signal_lit, event, result, same_as_prev>>

\* line 106: the write of True, and the return
CallLight(t) ==
    /\ calls[t].at = "light"
    /\ is_signal_lit' = Light(is_signal_lit, calls[t].symbol)
    /\ calls' = [calls EXCEPT ![t] = Idle]
    /\ UNCHANGED <<pc, pct_arg, source, pct_threshold, symbol_directory,
                   last_day_lookup, out, event, result, same_as_prev>>

NextConc ==
    \/ Construct
    \/ Constructed
    \/ ScanSymbolMapping
    \/ \E t \in Threads : CallRead(t)
    \/ \E t \in Threads : CallPrint(t)
    \/ \E t \in Threads : CallLight(t)

SpecConc == Init /\ [][NextConc]_vars

\* ------------------------------------------------- vocabulary of the claims
IsQuote(e) == e.kind = "MBP1Msg"
IsMapping(e) == e.kind = "SymbolMappingMsg"
BothSides(e) == e.bid # PX_NULL /\ e.ask # PX_NULL

\* number of alerts printed for symbol s in the output o
AlertsIn(o, s) == Cardinality({i \in 1..Len(o) : o[i].symbol = s})

\* |mid - last| / last compared with the threshold thr, for last # 0, with
\* mid = (bid + ask) / (2 * PX_SCALE_DEN); Cmp is -1, 0 or 1 for <, =, >
MoveCmp(bid, ask, last, thr) ==
    LET lhs == Abs(bid + ask - 2 * PX_SCALE_DEN * last) * thr.den
        rhs == thr.num * 2 * PX_SCALE_DEN * Abs(last)
    IN  IF last < 0 THEN (IF lhs = 0 /\ rhs = 0 THEN 0 ELSE -1)
        ELSE IF lhs > rhs THEN 1 ELSE IF lhs = rhs THEN 0 ELSE -1

\* the engine's own state: everything but the record of the last call
engine == <<pct_threshold, symbol_directory, last_day_lookup, is_signal_lit>>

\* the step is a scan() of the quote event' for a symbol that is mapped, in the
\* reference table and Armed when the call starts
ArmedQuoteStep(s) ==
    /\ IsQuote(event')
    /\ BothSides(event')
    /\ event'.id \in DOMAIN symbol_directory
    /\ symbol_directory[event'.id] = s
    /\ s \in DOMAIN last_day_lookup
    /\ ~is_signal_lit[s]

\* the step prints one alert for s and lights its signal
AlertStep(s) ==
    /\ result' = "alert"
    /\ Len(out') = Len(out) + 1
    /\ SubSeq(out', 1, Len(out)) = out
    /\ out'[Len(out')].symbol = s
    /\ is_signal_lit'[s]

\* the step prints nothing and leaves the engine as it was
SilentStep ==
    /\ result' = "returned"
    /\ out' = out
    /\ engine' = engine

\* C1: at most one alert is ever printed for a symbol, whatever the events,
\* also when several instrument ids map to it and a qualifying quote repeats.
C1_AtMostOneAlertPerSymbol == \A s \in Symbols : AlertsIn(out, s) <= 1

\* C1 witness: both instrument ids map to one symbol, its alert has been
\* printed, and the same qualifying quote was just delivered again in silence.
C1_Witness ==
    \E s \in DOMAIN last_day_lookup :
        /\ \A i \in InstrumentIDs : i \in DOMAIN symbol_directory /\ symbol_directory[i] = s
        /\ AlertsIn(out, s) = 1
        /\ IsQuote(event) /\ BothSides(event) /\ same_as_prev
        /\ last_day_lookup[s] > 0
        /\ MoveCmp(event.bid, event.ask, last_day_lookup[s], pct_threshold) = 1
        /\ result = "returned"

\* C2: a quote with both sides whose move exceeds the threshold, for a mapped
\* Armed symbol with a positive reference price, prints the alert in that very
\* call and lights the symbol, and it is then the symbol's only alert.
C2_FirstExceedingQuoteAlerts ==
    [][\A s \in Symbols :
          (/\ ArmedQuoteStep(s)
           /\ last_day_lookup[s] > 0
           /\ MoveCmp(event'.bid, event'.ask, last_day_lookup[s], pct_threshold) = 1)
          => (AlertStep(s) /\ AlertsIn(out', s) = 1)]_vars

\* C2 witness: the last call printed the first and only alert of its symbol,
\* whose reference price is positive.
C2_Witness ==
    /\ result = "alert"
    /\ IsQuote(event)
    /\ LET s == symbol_directory[event.id]
       IN  /\ last_day_lookup[s] > 0
           /\ is_signal_lit[s]
           /\ AlertsIn(out, s) = 1
           /\ out[Len(out)].symbol = s

\* C3: the threshold is strict: for a mapped, in-universe, Armed symbol a
\* move equal to or below the threshold prints nothing and leaves the symbol
\* Armed, and a move strictly above it prints an alert.
C3_StrictThreshold ==
    [][\A s \in Symbols :
          (ArmedQuoteStep(s) /\ last_day_lookup[s] # 0)
          => IF MoveCmp(event'.bid, event'.ask, last_day_lookup[s], pct_threshold) = 1
               THEN AlertStep(s)
               ELSE SilentStep /\ ~is_signal_lit'[s]]_vars

\* C3 witness: the last call got a quote whose move equals the threshold
\* exactly, printed nothing, and its symbol is still Armed.
C3_Witness ==
    /\ IsQuote(event) /\ BothSides(event)
    /\ event.id \in DOMAIN symbol_directory
    /\ LET s == symbol_directory[event.id]
       IN  /\ s \in DOMAIN last_day_lookup
           /\ last_day_lookup[s] > 0
           /\ MoveCmp(event.bid, event.ask, last_day_lookup[s], pct_threshold) = 0
           /\ ~is_signal_lit[s]
           /\ AlertsIn(out, s) = 0
    /\ result = "returned"

\* C4: a quote for an instrument id without a mapping is dropped in silence:
\* the call returns normally without an alert.
C4_UnmappedQuoteDropped ==
    (IsQuote(event) /\ event.id \notin DOMAIN symbol_directory) => result = "returned"

\* C5: a quote with both sides whose id resolves to a symbol that is not in
\* the reference table is dropped in silence: the call returns normally.
C5_OutOfUniverseQuoteDropped ==
    (/\ IsQuote(event) /\ BothSides(event)
     /\ event.id \in DOMAIN symbol_directory
     /\ symbol_directory[event.id] \notin DOMAIN last_day_lookup)
    => result = "returned"

\* C6: for a symbol whose reference price is zero or negative no quote ever
\* raises or prints an alert, and the symbol stays Armed.
C6_DegenerateReferenceSkipped ==
    \A s \in DOMAIN is_signal_lit :
        last_day_lookup[s] <= 0 =>
            /\ ~is_signal_lit[s]
            /\ AlertsIn(out, s) = 0
            /\ (/\ IsQuote(event)
                /\ event.id \in DOMAIN symbol_directory
                /\ symbol_directory[event.id] = s) => result = "returned"

\* C7: a quote with the null sentinel on either side returns normally without
\* an alert, whatever the engine state, mapped or not, in the universe or not.
C7_NullSideDropped ==
    (IsQuote(event) /\ ~BothSides(event)) => result = "returned"

\* C8: every symbol of the reference table starts Armed, and a symbol that is
\* Fired is still Fired after every later call, of any event.
C8_ArmedToFiredOnly ==
    /\ []((pc = "scanning" /\ result = "none") =>
             /\ DOMAIN is_signal_lit = DOMAIN last_day_lookup
             /\ \A s \in DOMAIN is_signal_lit : ~is_signal_lit[s])
    /\ [][\A s \in DOMAIN is_signal_lit :
             is_signal_lit[s] => (s \in DOMAIN is_signal_lit' /\ is_signal_lit'[s])]_vars

\* C8 witness: a symbol is Fired and a mapping that rebinds an instrument id
\* of it has been handled since.
C8_Witness ==
    /\ IsMapping(event)
    /\ \E s \in DOMAIN is_signal_lit :
          /\ is_signal_lit[s]
          /\ event.symbol # s
          /\ \A i \in DOMAIN symbol_directory : symbol_directory[i] # s

\* C9: handling the same SymbolMapping twice in a row leaves the engine and
\* the output exactly as handling it once did; scan() is a function of the
\* engine state and the event, so the later alerts are the same too.
C9_MappingIdempotent ==
    [][(IsMapping(event) /\ event' = event)
         => (result' = "returned" /\ out' = out /\ engine' = engine)]_vars

\* C9 witness: a SymbolMapping was just handled for the second time in a row
\* while both instrument ids are bound.
C9_Witness ==
    /\ IsMapping(event) /\ same_as_prev
    /\ symbol_directory[event.id] = event.symbol
    /\ Cardinality(DOMAIN symbol_directory) = 2

\* C10: a printed alert carries its quote's data: the symbol the quote's id
\* resolves to, the quote's timestamp, mid = scaled (bid + ask) / 2, the
\* symbol's reference price, and |mid - reference| / reference, which is
\* strictly above the threshold.
C10_AlertCarriesQuoteData ==
    [][Len(out') > Len(out) =>
         LET e == event'
             a == out'[Len(out')]
         IN  /\ out' = Append(out, a)
             /\ IsQuote(e) /\ BothSides(e)
             /\ e.id \in DOMAIN symbol_directory
             /\ a.symbol = symbol_directory[e.id]
             /\ a.ts = e.ts
             /\ a.symbol \in DOMAIN last_day_lookup
             /\ a.last = last_day_lookup[a.symbol]
             /\ a.last # 0
             /\ a.mid.den # 0 /\ a.pct.den # 0
             /\ a.mid.num * 2 * PX_SCALE_DEN = (e.bid + e.ask) * a.mid.den
             /\ a.pct.num * a.last * a.mid.den
                  = Abs(a.mid.num - a.last * a.mid.den) * a.pct.den
             /\ MoveCmp(e.bid, e.ask, a.last, pct_threshold) = 1]_vars

\* C10 witness: the last call printed the second alert of the session, for a
\* downward move, through an id other than the one it is the only alert of.
C10_Witness ==
    /\ result = "alert"
    /\ Len(out) = 2
    /\ out[2].symbol # out[1].symbol
    /\ out[2].ts = event.ts
    /\ out[2].mid.num < out[2].last * out[2].mid.den

\* the symbols of the rows of a historical response
RowSymbols(rows) == {rows[i].symbol : i \in 1..Len(rows)}

\* C11: when the historical source fails or answers with less than the whole
\* universe, construction fails: __init__ does not go on to a scanner.
C11_ConstructionAllOrNothing ==
    [][(pc = "init" /\ (~source.ok \/ RowSymbols(source.rows) # Symbols))
         => pc' = "failed"]_vars

\* C12: the table built from the response has exactly the symbols of its rows,
\* each with the close of the last row of that symbol in source order.
C12_LastRowWins ==
    pc = "built" =>
        /\ DOMAIN last_day_lookup = RowSymbols(source.rows)
        /\ \A i \in 1..Len(source.rows) :
              (\A j \in (i + 1)..Len(source.rows) :
                    source.rows[j].symbol # source.rows[i].symbol)
              => last_day_lookup[source.rows[i].symbol] = source.rows[i].close

\* C12 witness: the table has been built from a response with two rows of one
\* symbol and different closes.
C12_Witness ==
    /\ pc = "built"
    /\ \E i, j \in 1..Len(source.rows) :
          /\ i < j
          /\ source.rows[i].symbol = source.rows[j].symbol
          /\ source.rows[i].close # source.rows[j].close
          /\ last_day_lookup[source.rows[j].symbol] = source.rows[j].close

\* C13: the threshold of the engine is the configured fraction whenever one
\* was configured, and the default 0.03 when none was.
C13_ThresholdIsConfigured ==
    pc = "scanning" =>
        pct_threshold = IF pct_arg.given THEN [num |-> pct_arg.num, den |-> PCT_DEN]
                                         ELSE PCT_MOVE_THRESHOLD

\* C14: a binding of an instrument id, once made, is never removed and never
\* changed to another symbol by any later event.
C14_BindingImmutable ==
    [][\A i \in DOMAIN symbol_directory :
          i \in DOMAIN symbol_directory' /\ symbol_directory'[i] = symbol_directory[i]]_vars

\* C14 amended: a binding is never removed, and it changes only when a
\* SymbolMapping for that same instrument id is handled, to that event's symbol.
C14_BindingChangesOnlyByRemap ==
    [][\A i \in DOMAIN symbol_directory :
          /\ i \in DOMAIN symbol_directory'
          /\ symbol_directory'[i] # symbol_directory[i]
               => (/\ IsMapping(event')
                   /\ event'.id = i
                   /\ symbol_directory'[i] = event'.symbol)]_vars

\* C14 witness: one instrument id is bound, a symbol has fired through it, and
\* a mapping has since bound that id to another symbol.
C14_Witness ==
    /\ IsMapping(event) /\ ~same_as_prev
    /\ DOMAIN symbol_directory = {event.id}
    /\ \E s \in DOMAIN is_signal_lit :
          /\ is_signal_lit[s]
          /\ symbol_directory[event.id] # s
          /\ \A t \in DOMAIN is_signal_lit : is_signal_lit[t] => t = s

\* C16: a SymbolMapping prints no alert and changes only the directory entry
\* of its instrument id: the other entries, the signals and the reference
\* table stay as they are.
C16_MappingFrame ==
    [][IsMapping(event') =>
         /\ result' = "returned"
         /\ out' = out
         /\ is_signal_lit' = is_signal_lit
         /\ last_day_lookup' = last_day_lookup
         /\ pct_threshold' = pct_threshold
         /\ symbol_directory'[event'.id] = event'.symbol
         /\ DOMAIN symbol_directory' = DOMAIN symbol_directory \cup {event'.id}
         /\ \A i \in DOMAIN symbol_directory \ {event'.id} :
               symbol_directory'[i] = symbol_directory[i]]_vars

\* C16 witness: a mapping was just handled while the other instrument id was
\* bound to another symbol and a symbol had fired.
C16_Witness ==
    /\ IsMapping(event)
    /\ DOMAIN symbol_directory = InstrumentIDs
    /\ \E i \in InstrumentIDs : symbol_directory[i] # event.symbol
    /\ \E s \in DOMAIN is_signal_lit : is_signal_lit[s] /\ AlertsIn(out, s) = 1

\* C17: the symbols tracked by the signals are the symbols of the reference
\* table built at construction, and no event adds or removes one.
C17_SignalsTrackTheTable ==
    /\ [](pc = "scanning" => DOMAIN is_signal_lit = DOMAIN last_day_lookup)
    /\ [][pc = "scanning" => DOMAIN is_signal_lit' = DOMAIN is_signal_lit]_vars

\* C17 witness: a quote for a symbol outside the reference table has been
\* handled, and the signals still track the one symbol of the table.
C17_Witness ==
    /\ IsQuote(event) /\ BothSides(event)
    /\ event.id \in DOMAIN symbol_directory
    /\ symbol_directory[event.id] \notin DOMAIN last_day_lookup
    /\ Cardinality(DOMAIN is_signal_lit) = 1

\* C18: no scan() call, of any event, changes the reference table: its keys
\* and its prices stay as construction left them.
C18_TableReadOnly ==
    [][pc = "scanning" => last_day_lookup' = last_day_lookup]_vars

\* C18 witness: both symbols of a two-symbol table have alerted, a later call
\* has returned, and the table still holds the prices the alerts were printed with.
C18_Witness ==
    /\ DOMAIN last_day_lookup = Symbols
    /\ Len(out) = 2
    /\ \A i \in 1..2 : out[i].last = last_day_lookup[out[i].symbol]
    /\ result = "returned"

\* C19: a symbol is Fired exactly when one alert for it has been printed, and
\* it becomes Fired only in a call that prints its alert, for a quote whose
\* move exceeds the threshold.
C19_FiredIffAlerted ==
    /\ [](\A s \in Symbols :
             (s \in DOMAIN is_signal_lit /\ is_signal_lit[s]) <=> AlertsIn(out, s) = 1)
    /\ [][\A s \in DOMAIN is_signal_lit :
             (~is_signal_lit[s] /\ is_signal_lit'[s]) =>
                 /\ ArmedQuoteStep(s)
                 /\ AlertStep(s)
                 /\ last_day_lookup[s] # 0
                 /\ MoveCmp(event'.bid, event'.ask, last_day_lookup[s], pct_threshold) = 1]_vars

\* C19 witness: one symbol is Fired with its one alert, and a quote above the
\* threshold for it has just been handled without a second one.
C19_Witness ==
    /\ IsQuote(event) /\ BothSides(event) /\ ~same_as_prev
    /\ result = "returned"
    /\ event.id \in DOMAIN symbol_directory
    /\ LET s == symbol_directory[event.id]
       IN  /\ s \in DOMAIN is_signal_lit
           /\ is_signal_lit[s]
           /\ AlertsIn(out, s) = 1
           /\ out[Len(out)].ts # event.ts
           /\ last_day_lookup[s] > 0
           /\ MoveCmp(event.bid, event.ask, last_day_lookup[s], pct_threshold) = 1

\* C20: a quote leaves the directory alone and changes the signal and the
\* alerts of no symbol but the one its instrument id resolves to.
C20_QuoteFrame ==
    [][IsQuote(event') =>
         /\ symbol_directory' = symbol_directory
         /\ last_day_lookup' = last_day_lookup
         /\ DOMAIN is_signal_lit' = DOMAIN is_signal_lit
         /\ \A s \in Symbols :
               (\/ (s \in DOMAIN is_signal_lit /\ is_signal_lit'[s] # is_signal_lit[s])
                \/ AlertsIn(out', s) # AlertsIn(out, s))
               => (event'.id \in DOMAIN symbol_directory /\ symbol_directory[event'.id] = s)]_vars

\* C20 witness: a quote has just fired one symbol while the other symbol of
\* the table, bound to the other instrument id, is still Armed.
C20_Witness ==
    /\ result = "alert"
    /\ DOMAIN symbol_directory = InstrumentIDs
    /\ DOMAIN last_day_lookup = Symbols
    /\ \E s \in Symbols :
          /\ s # symbol_directory[event.id]
          /\ \E i \in InstrumentIDs : symbol_directory[i] = s
          /\ ~is_signal_lit[s]
          /\ last_day_lookup[s] > 0

\* calls for symbol s that have printed and not yet written True
Printed(s) == {t \in Threads : calls[t].at = "light" /\ calls[t].symbol = s}

\* C15: with two calls for qualifying quotes of one Armed symbol interleaved
\* between the read of the signal and the write of True, there is still
\* exactly one alert for the symbol, never a second one.
C15_OneAlertUnderInterleaving ==
    \A s \in DOMAIN is_signal_lit :
        /\ AlertsIn(out, s) <= 1
        /\ is_signal_lit[s] => AlertsIn(out, s) = 1

\* C15 amended: each call that read the signal before the first write of True
\* prints, so two interleaved calls can print two alerts for the symbol; a
\* call prints at most once, and while the symbol is Armed every alert printed
\* for it is of a call that has not yet written True.
C15_OneAlertPerOverlappingCall ==
    \A s \in DOMAIN is_signal_lit :
        /\ AlertsIn(out, s) <= Cardinality(Threads)
        /\ ~is_signal_lit[s] => AlertsIn(out, s) = Cardinality(Printed(s))
        /\ is_signal_lit[s] => AlertsIn(out, s) >= 1
        /\ \A i, j \in 1..Len(out) :
              (i < j /\ out[i].symbol = s /\ out[j].symbol = s) => out[i].ts # out[j].ts

\* C15 witness: both calls have returned, the symbol is Fired, and each call
\* has printed an alert for it.
C15_Witness ==
    /\ \A t \in Threads : calls[t].at = "idle"
    /\ \E s \in DOMAIN is_signal_lit :
          /\ is_signal_lit[s]
          /\ AlertsIn(out, s) = 2
====
